---- MODULE Spec2Model ----
(***************************************************************************)
(* Wardrobe VPN CLI: the provisioning run of cli/wardrobe-cli.py main()    *)
(* and the operations of cli/utils.py it drives, as a state machine.       *)
(*                                                                         *)
(* The world (provider key store, the tf_output workspace, the plan file)  *)
(* outlives a run; everything else is reset when the tool is started       *)
(* again.  Spec is the tool run MaxRuns times in a row; SpecOps calls the  *)
(* four operations (set_do_ssh_key, generate_terraform_config,             *)
(* plan_terraform_deployment, deploy_terraform) directly, in any order, as *)
(* a unit test would.  SpecRender is the template substitution of          *)
(* generate_terraform_config, SpecWait the polling loop of wait_for_http   *)
(* and SpecScan the droplet loop of find_existing_vpns, each taken on its  *)
(* own with the rest of the program at rest.                               *)
(***************************************************************************)
EXTENDS Naturals, Integers, Sequences, FiniteSets, TLC

VARIABLES
    mode,        \* "main": main() is running; "ops": operations called directly
    pc,          \* position in main() / in the operation being executed
    run,         \* number of the current run of the tool (or of direct calls)
    keyStore,    \* provider: the key files whose text is registered on the account
    serverFp,    \* provider: "md5" if it fingerprints as get_md5_fingerprint does
    ws,          \* tf_output: 0 = absent, n = written by the n-th render
    wsStale,     \* tf_output still holds files older than its last render
    planFile,    \* tf_output/terraform.tfplan: NoPlan or [id, ws, run]
    renders,     \* number of renders done so far (ids of workspaces)
    plans,       \* number of plans written so far (ids of plan artifacts)
    consumed,    \* ids of the plan artifacts an apply has succeeded with
    config,      \* main(): the config dict
    plan_file,   \* main(): id of the plan whose path plan_terraform_deployment returned
    call,        \* the set_do_ssh_key call in progress / last finished
    lastCall,    \* the set_do_ssh_key call finished before that one
    steps,       \* steps started in this run, in order
    cmds,        \* terraform commands invoked in this run, in order
    applied,     \* what each 'terraform apply' of this run was given
    answers,     \* confirmations the user answered yes to in this run
    failed,      \* steps of this run that failed
    exc,         \* exception class that ended the run / the direct call
    exitCode,    \* the exit codes the process ended with: {} while running
    rnd,         \* generate_terraform_config on its own: inputs, file written
    poll,        \* wait_for_http on its own: clock, deadline, position, result
    scn          \* find_existing_vpns on its own: the droplet looked at, the list

vars == <<mode, pc, run, keyStore, serverFp, ws, wsStale, planFile, renders,
          plans, consumed, config, plan_file, call, lastCall, steps, cmds, applied,
          answers, failed, exc, exitCode, rnd, poll, scn>>

world == <<keyStore, serverFp, ws, wsStale, planFile, renders, plans, consumed>>
keyvars == <<call, lastCall>>
logs == <<steps, cmds, applied, answers, failed>>
pure == <<rnd, poll, scn>>

(***************************************************************************)
(* Bounds                                                                  *)
(***************************************************************************)
MaxRuns == 2      \* runs of the tool in a row (Spec)
MaxCalls == 3     \* direct calls of operations (SpecOps)

(***************************************************************************)
(* Program constants                                                       *)
(***************************************************************************)
TokenHexLen == 64
ExitOk == 0
ExitUnexpected == 1
ExitInput == 2
ExitInfra == 3

NoPlan == [id |-> 0, ws |-> 0, run |-> 0]
NoFp == [by |-> "none", key |-> "none"]
NoText == [file |-> "none", padded |-> FALSE]
NoCall == [key |-> "none", local |-> NoFp, lookup |-> "none", posts |-> 0,
           sent |-> NoText, raced |-> FALSE, create |-> "none", body |-> "none",
           created |-> FALSE, result |-> NoFp, raised |-> "none", done |-> FALSE]
NoToken == [prefix |-> "none", len |-> 0, hex |-> FALSE, padded |-> FALSE]
NoConfig == [api_key |-> NoToken, vpn_name |-> "none", ssh_key_path |-> "none",
             ssh_key_fingerprint |-> NoFp]

NoRender == [region |-> <<>>, vpn_name |-> <<>>, key_text |-> <<>>,
             user_ip |-> <<>>, api_key |-> <<>>, ssh_key_fingerprint |-> <<>>,
             file |-> "none", tpl |-> <<>>, out |-> <<>>]
NoDroplet == [name |-> <<>>, tags |-> {}]
NoScan == [pc |-> "idle", seen |-> 0, droplet |-> NoDroplet, listed |-> FALSE,
           found |-> 0]
NoPoll == [pc |-> "idle", now |-> 0, deadline |-> 0, begins |-> FALSE, at |-> 0,
           result |-> "none", raised |-> "none"]

(***************************************************************************)
(* Exceptions and the exit code main() maps each to                        *)
(***************************************************************************)
\* main() whose InputError handler is missing: the last handler takes it
ExitCodeOfInputUnhandled(e) ==
    CASE e = "none"              -> ExitOk
      [] e = "SystemExit"        -> ExitOk
      [] e = "KeyboardInterrupt" -> ExitOk
      [] e = "UserCancelled"     -> ExitOk
      [] e = "InfraError"        -> ExitInfra
      [] OTHER                   -> ExitUnexpected

\* The handlers at the end of main(), in their order
ExitCodeOf(e) ==
    CASE e = "none"              -> ExitOk
      [] e = "SystemExit"        -> ExitOk
      [] e = "KeyboardInterrupt" -> ExitOk
      [] e = "UserCancelled"     -> ExitOk
      [] e = "InputError"        -> ExitInput
      [] e = "InfraError"        -> ExitInfra
      [] e = "WardrobeError"     -> ExitUnexpected
      [] OTHER                   -> ExitUnexpected

\* An operation returns: main() goes on to `next`, a direct call is over.
Continue(next) ==
    /\ pc' = IF mode = "ops" THEN "idle" ELSE next
    /\ exc' = IF mode = "ops" THEN "none" ELSE exc
    /\ UNCHANGED exitCode

\* An exception leaves the operation: main()'s handlers end the run with its
\* exit code, a direct caller sees the exception.
Raise(e) ==
    /\ pc' = IF mode = "ops" THEN "idle" ELSE "exit"
    /\ exc' = e
    /\ exitCode' = IF mode = "ops" THEN {} ELSE {ExitCodeOf(e)}

Started(s) == steps' = Append(steps, s)
Failed(s) == failed' = failed \cup {s}

(***************************************************************************)
(* ask_question: an answer, no answer / Ctrl+C, or a prompt failure        *)
(***************************************************************************)
PromptOutcomes == {"answered", "cancelled", "broken"}

PromptRaise(o) ==
    IF o = "cancelled" THEN Raise("UserCancelled") ELSE Raise("WardrobeError")

(***************************************************************************)
(* Inputs: API tokens as typed, names, public key files                    *)
(***************************************************************************)
\* A typed token: its prefix, the number of characters after it, whether
\* those are all in [a-f0-9], and whether whitespace surrounds it.
TokenInputs ==
    [prefix : {"dop_v1_", "dop_v2_"},
     len : {TokenHexLen - 1, TokenHexLen, TokenHexLen + 1},
     hex : BOOLEAN, padded : BOOLEAN]

\* str.strip()
TokenStrip(t) == [t EXCEPT !.padded = FALSE]

\* Whether what was typed is, whitespace around it aside, dop_v1_ followed
\* by 64 characters of [a-f0-9]
TokenWellFormed(t) == t.prefix = "dop_v1_" /\ t.len = TokenHexLen /\ t.hex

\* get_digitalocean_auth that checks the prefix and the alphabet only
TokenMatchesAnyLength(t) ==
    /\ ~t.padded
    /\ t.prefix = "dop_v1_"
    /\ t.hex

\* re.match(r'^dop_v1_[a-f0-9]{64}$', token)
TokenMatches(t) ==
    /\ ~t.padded
    /\ t.prefix = "dop_v1_"
    /\ t.len = TokenHexLen
    /\ t.hex

NameInputs == {"wardrobe-vpn-lon1", ""}

\* The *.pub files of ~/.ssh and the file ssh-keygen writes: whether the file
\* exists, starts with a key type, how many whitespace-separated fields it
\* has, whether its second field is base64, whether whitespace surrounds it.
NewKeyPath == "wardrobe-vpn-key.pub"
KeyFile(path) ==
    CASE path = "id_ed25519.pub" ->
           [exists |-> TRUE, typed |-> TRUE, fields |-> 3, b64 |-> TRUE, padded |-> TRUE]
      [] path = NewKeyPath ->
           [exists |-> TRUE, typed |-> TRUE, fields |-> 3, b64 |-> TRUE, padded |-> TRUE]
      [] path = "id_short.pub" ->
           [exists |-> TRUE, typed |-> TRUE, fields |-> 1, b64 |-> FALSE, padded |-> FALSE]
      [] path = "id_broken.pub" ->
           [exists |-> TRUE, typed |-> TRUE, fields |-> 2, b64 |-> FALSE, padded |-> FALSE]
      [] path = "notes.pub" ->
           [exists |-> TRUE, typed |-> FALSE, fields |-> 2, b64 |-> TRUE, padded |-> FALSE]
      [] OTHER ->
           [exists |-> FALSE, typed |-> FALSE, fields |-> 0, b64 |-> FALSE, padded |-> FALSE]

SshDirKeys == {"id_ed25519.pub", "id_short.pub", "id_broken.pub", "notes.pub"}
GoodKeys == {"id_ed25519.pub", NewKeyPath}
MissingKeyPath == "gone.pub"

\* Path.read_text(): the text of a key file, which is the key and, for a
\* padded file, whitespace or a line end around it
KeyText(path) == [file |-> path, padded |-> KeyFile(path).padded]

\* str.strip()
KeyStrip(text) == [text EXCEPT !.padded = FALSE]

\* public_key_text = pubkey_path.read_text().strip()
PublicKeyText(path) == KeyStrip(KeyText(path))

\* validate_ssh_key: the exception it raises, "none" when the key passes
ValidateSshKey(path) ==
    IF ~KeyFile(path).exists THEN "InputError"
    ELSE IF ~KeyFile(path).typed THEN "InputError"
    ELSE "none"

\* get_md5_fingerprint: the exception it raises, "none" when it returns
Md5Raises(path) ==
    IF ~KeyFile(path).exists THEN "InputError"
    ELSE IF KeyFile(path).fields < 2 THEN "InputError"
    ELSE IF ~KeyFile(path).b64 THEN "InputError"
    ELSE "none"

\* get_md5_fingerprint: the colon-grouped MD5 of the decoded key
LocalFp(path) == [by |-> "md5", key |-> path]

\* The fingerprint the provider assigns to a key
ServerFpOf(path) == [by |-> serverFp, key |-> path]

(***************************************************************************)
(* collect_user_inputs                                                     *)
(***************************************************************************)
\* select_cloud_provider
SelectCloudProvider ==
    /\ mode = "main" /\ pc = "provider"
    /\ \E o \in PromptOutcomes, choice \in {"digitalocean", "no account"} :
         IF o # "answered" THEN PromptRaise(o)
         ELSE IF choice = "no account" THEN Raise("UserCancelled")
         ELSE Continue("auth")
    /\ UNCHANGED <<mode, pure, run, world, config, plan_file, keyvars, logs>>

\* get_digitalocean_auth.  failed records a typed token that is not of the
\* format ("token").
GetDigitaloceanAuth ==
    /\ mode = "main" /\ pc = "auth"
    /\ \E o \in PromptOutcomes, typed \in TokenInputs :
         IF o # "answered"
         THEN PromptRaise(o) /\ UNCHANGED <<config, failed>>
         ELSE /\ failed' = IF TokenWellFormed(typed) THEN failed
                           ELSE failed \cup {"token"}
              /\ IF ~TokenMatches(TokenStrip(typed))
                 THEN Raise("InputError") /\ UNCHANGED config
                 ELSE /\ config' = [config EXCEPT !.api_key = TokenStrip(typed)]
                      /\ Continue("scan")
    /\ UNCHANGED <<mode, pure, run, world, plan_file, keyvars, steps, cmds, applied,
                   answers>>

\* find_existing_vpns as collect_user_inputs calls it: a transport error or
\* a status other than 200 is an InfraError, caught there; a body it cannot
\* process raises something else, which is not caught there.
ScanOutcomes == {"transport", "status", "unprocessable", "none_found", "found"}
FindExistingVpns ==
    /\ mode = "main" /\ pc = "scan"
    /\ Started("scan")
    /\ \E o \in ScanOutcomes :
         CASE o \in {"transport", "status"} ->
                Failed("scan") /\ Continue("region")
           [] o = "unprocessable" ->
                Failed("scan") /\ Raise("Exception")
           [] o = "none_found" ->
                UNCHANGED failed /\ Continue("region")
           [] o = "found" ->
                UNCHANGED failed /\ Continue("continue_q")
    /\ UNCHANGED <<mode, pure, run, world, config, plan_file, keyvars, cmds, applied,
                   answers>>

\* "Existing VPNs found ..., do you wish to continue?"
ConfirmContinue ==
    /\ mode = "main" /\ pc = "continue_q"
    /\ \E o \in PromptOutcomes, yes \in BOOLEAN :
         IF o # "answered" THEN PromptRaise(o)
         ELSE IF ~yes THEN Raise("UserCancelled")
         ELSE Continue("region")
    /\ UNCHANGED <<mode, pure, run, world, config, plan_file, keyvars, logs>>

\* set_vpn_region, confirm_droplet_size
SetVpnRegion ==
    /\ mode = "main" /\ pc = "region"
    /\ \E o \in PromptOutcomes :
         IF o # "answered" THEN PromptRaise(o) ELSE Continue("size")
    /\ UNCHANGED <<mode, pure, run, world, config, plan_file, keyvars, logs>>

ConfirmDropletSize ==
    /\ mode = "main" /\ pc = "size"
    /\ \E o \in PromptOutcomes :
         IF o # "answered" THEN PromptRaise(o) ELSE Continue("name")
    /\ UNCHANGED <<mode, pure, run, world, config, plan_file, keyvars, logs>>

\* if q["vpn_name"] == "": raise InputError
NameAccepted(typed) == typed # ""

\* set_vpn_name.  failed records an empty name ("name").
SetVpnName ==
    /\ mode = "main" /\ pc = "name"
    /\ \E o \in PromptOutcomes, typed \in NameInputs :
         IF o # "answered"
         THEN PromptRaise(o) /\ UNCHANGED <<config, failed>>
         ELSE /\ failed' = IF typed = "" THEN failed \cup {"name"} ELSE failed
              /\ IF ~NameAccepted(typed)
                 THEN Raise("InputError") /\ UNCHANGED config
                 ELSE /\ config' = [config EXCEPT !.vpn_name = typed]
                      /\ Continue("sshkey")
    /\ UNCHANGED <<mode, pure, run, world, plan_file, keyvars, steps, cmds, applied,
                   answers>>

\* set_ssh_key: an existing key of ~/.ssh, validated, or a new one from
\* generate_ssh_key (which raises InputError when the name is taken or
\* ssh-keygen is missing, WardrobeError when ssh-keygen fails), validated.
KeygenOutcomes == {"ok", "InputError", "WardrobeError"}
SetSshKey ==
    /\ mode = "main" /\ pc = "sshkey"
    /\ \E o \in PromptOutcomes, choice \in SshDirKeys \cup {"new"},
          gen \in KeygenOutcomes :
         LET path == IF choice = "new" THEN NewKeyPath ELSE choice IN
         IF o # "answered" THEN PromptRaise(o) /\ UNCHANGED config
         ELSE IF choice = "new" /\ gen # "ok"
              THEN Raise(gen) /\ UNCHANGED config
         ELSE IF ValidateSshKey(path) # "none"
              THEN Raise(ValidateSshKey(path)) /\ UNCHANGED config
         ELSE /\ config' = [config EXCEPT !.ssh_key_path = path]
              /\ Continue("review")
    /\ UNCHANGED <<mode, pure, run, world, plan_file, keyvars, logs>>

\* main() that goes on to register the key whatever the answer
AfterReviewAnswerIgnored(yes) == "key_read"

\* if not q_continue['confirm']: raise UserCancelled
AfterReviewAnswer(yes) == IF ~yes THEN "cancel" ELSE "key_read"

\* main() step 2: "Continue with Planning?"
ConfirmReview ==
    /\ mode = "main" /\ pc = "review"
    /\ \E o \in PromptOutcomes, yes \in BOOLEAN :
         IF o # "answered" THEN PromptRaise(o) /\ UNCHANGED answers
         ELSE /\ answers' = IF yes THEN answers \cup {"review"} ELSE answers
              /\ IF AfterReviewAnswer(yes) = "cancel"
                 THEN Raise("UserCancelled")
                 ELSE Continue("key_read")
    /\ UNCHANGED <<mode, pure, run, world, config, plan_file, keyvars, steps, cmds,
                   applied, failed>>

(***************************************************************************)
(* set_do_ssh_key                                                          *)
(***************************************************************************)
\* main() that swallows the exception and goes on without a fingerprint
KeyRaiseSwallowed(e) ==
    /\ Continue("render")
    /\ Failed("key")
    /\ UNCHANGED config

\* An exception leaves set_do_ssh_key: main() wraps whatever it is in an
\* InfraError ("SSH key registration with DO failed").
KeyRaise(e) ==
    /\ Raise(IF mode = "main" THEN "InfraError" ELSE e)
    /\ Failed("key")
    /\ UNCHANGED config

\* set_do_ssh_key returns fp: main() stores it in the config.
KeyReturn(fp) ==
    /\ config' = [config EXCEPT !.ssh_key_fingerprint = fp]
    /\ Continue("render")
    /\ UNCHANGED failed

\* GET /account/keys/{fingerprint}: 200 when the account holds a key with
\* that fingerprint, else 404
LookupStatus(fp) ==
    IF \E k \in keyStore : ServerFpOf(k) = fp THEN "200" ELSE "404"

\* POST /account/keys: 422 when the key is already on the account, else 201
CreateStatus(key) == IF key \in keyStore THEN "422" ELSE "201"

\* Read the key file and compute the local fingerprint.
SetDoSshKeyRead ==
    /\ pc = "key_read"
    /\ Started("key")
    /\ lastCall' = call
    /\ LET path == config.ssh_key_path IN
         IF ~KeyFile(path).exists \/ Md5Raises(path) # "none"
         THEN /\ call' = [NoCall EXCEPT !.key = path, !.raised = "InputError",
                                        !.done = TRUE]
              /\ KeyRaise("InputError")
         ELSE /\ call' = [NoCall EXCEPT !.key = path, !.local = LocalFp(path)]
              /\ pc' = "key_get"
              /\ UNCHANGED <<exc, exitCode, failed, config>>
    /\ UNCHANGED <<mode, pure, run, world, plan_file, cmds, applied, answers>>

\* set_do_ssh_key without the return on 200: every found or missing key is
\* created
AfterLookupAlwaysCreates(status) ==
    IF status = "error" THEN "raise"
    ELSE IF status \notin {"200", "404"} THEN "raise"
    ELSE "create"

\* set_do_ssh_key that takes every lookup answer other than 200 for "no
\* such key" and goes on to create it
AfterLookupErrorIsMissing(status) ==
    IF status = "error" THEN "raise"
    ELSE IF status = "200" THEN "return"
    ELSE "create"

\* What set_do_ssh_key does with the lookup's response ("error": the
\* request itself raised).
AfterLookup(status) ==
    IF status = "error" THEN "raise"
    ELSE IF status = "200" THEN "return"
    ELSE IF status \notin {"200", "404"} THEN "raise"
    ELSE "create"

\* The lookup by fingerprint.
LookupOutcomes == {"error", "answered", "401", "500"}
SetDoSshKeyGet ==
    /\ pc = "key_get"
    /\ \E o \in LookupOutcomes :
         LET status == IF o = "answered" THEN LookupStatus(call.local) ELSE o
             next == AfterLookup(status)
         IN
         CASE next = "return" ->
                /\ call' = [call EXCEPT !.lookup = status, !.result = call.local,
                                        !.done = TRUE]
                /\ KeyReturn(call.local)
           [] next = "create" ->
                /\ call' = [call EXCEPT !.lookup = status]
                /\ pc' = "key_post"
                /\ UNCHANGED <<exc, exitCode, failed, config>>
           [] OTHER ->
                /\ call' = [call EXCEPT !.lookup = status, !.raised = "InfraError",
                                        !.done = TRUE]
                /\ KeyRaise("InfraError")
    /\ UNCHANGED <<mode, pure, run, world, plan_file, lastCall, steps, cmds, applied,
                   answers>>

\* Another process registers the same key between the lookup and the create.
RaceRegister ==
    /\ pc = "key_post"
    /\ call.key \notin keyStore
    /\ keyStore' = keyStore \cup {call.key}
    /\ call' = [call EXCEPT !.raced = TRUE]
    /\ UNCHANGED <<mode, pure, pc, run, serverFp, ws, wsStale, planFile, renders, plans,
                   consumed, config, plan_file, lastCall, logs, exc, exitCode>>

\* set_do_ssh_key that on 422 returns what the response body holds for a
\* fingerprint, which is nothing
AfterCreateConflictReadsBody(status, body, local, server) ==
    IF status = "error" THEN [raised |-> "InfraError", fp |-> NoFp]
    ELSE IF status \in {"200", "201", "202"}
         THEN IF body = "fingerprint"
              THEN [raised |-> "none", fp |-> server]
              ELSE [raised |-> "InfraError", fp |-> NoFp]
    ELSE IF status = "422" THEN [raised |-> "none", fp |-> NoFp]
    ELSE [raised |-> "InfraError", fp |-> NoFp]

\* set_do_ssh_key that returns its own fingerprint after a create
AfterCreateKeepsLocal(status, body, local, server) ==
    IF status = "error" THEN [raised |-> "InfraError", fp |-> NoFp]
    ELSE IF status \in {"200", "201", "202"}
         THEN IF body = "fingerprint"
              THEN [raised |-> "none", fp |-> local]
              ELSE [raised |-> "InfraError", fp |-> NoFp]
    ELSE IF status = "422" THEN [raised |-> "none", fp |-> local]
    ELSE [raised |-> "InfraError", fp |-> NoFp]

\* set_do_ssh_key for which 422 is one more failed create
AfterCreateConflictFails(status, body, local, server) ==
    IF status = "error" THEN [raised |-> "InfraError", fp |-> NoFp]
    ELSE IF status \in {"200", "201", "202"}
         THEN IF body = "fingerprint"
              THEN [raised |-> "none", fp |-> server]
              ELSE [raised |-> "InfraError", fp |-> NoFp]
    ELSE [raised |-> "InfraError", fp |-> NoFp]

\* What set_do_ssh_key makes of the create request's response ("error":
\* the request itself raised): the exception it raises, or the fingerprint
\* it returns.  server is the fingerprint in the response body.
AfterCreate(status, body, local, server) ==
    IF status = "error" THEN [raised |-> "InfraError", fp |-> NoFp]
    ELSE IF status \in {"200", "201", "202"}
         THEN IF body = "fingerprint"
              THEN [raised |-> "none", fp |-> server]
              ELSE [raised |-> "InfraError", fp |-> NoFp]
    ELSE IF status = "422" THEN [raised |-> "none", fp |-> local]
    ELSE [raised |-> "InfraError", fp |-> NoFp]

\* The create request.
CreateOutcomes == {"error", "answered", "500"}
CreatedBodies == {"fingerprint", "empty", "malformed"}
SetDoSshKeyPost ==
    /\ pc = "key_post"
    /\ \E o \in CreateOutcomes, body \in CreatedBodies :
         LET status == IF o = "answered" THEN CreateStatus(call.key) ELSE o
             r == AfterCreate(status, body, call.local, ServerFpOf(call.key))
         IN
         /\ keyStore' = IF status = "201" THEN keyStore \cup {call.key} ELSE keyStore
         /\ call' = [call EXCEPT !.posts = call.posts + 1, !.create = status,
                                 !.sent = PublicKeyText(call.key),
                                 !.body = IF status = "201" THEN body ELSE "none",
                                 !.created = (status = "201"), !.done = TRUE,
                                 !.raised = r.raised, !.result = r.fp]
         /\ IF r.raised = "none" THEN KeyReturn(r.fp) ELSE KeyRaise(r.raised)
    /\ UNCHANGED <<mode, pure, run, serverFp, ws, wsStale, planFile, renders, plans,
                   consumed, plan_file, lastCall, steps, cmds, applied, answers>>

(***************************************************************************)
(* generate_terraform_config, plan_terraform_deployment, deploy_terraform  *)
(***************************************************************************)
PlanPath == "tf_output/terraform.tfplan"

\* generate_terraform_config.  rm: whether shutil.rmtree(ignore_errors=True)
\* managed to remove the old directory.
RenderOutcomes == {"no_template", "io_fail", "ok"}
GenerateTerraformConfig ==
    /\ pc = "render"
    /\ Started("render")
    /\ \E o \in RenderOutcomes, rm \in BOOLEAN :
         LET removed == (ws = 0) \/ rm IN
         /\ IF o = "no_template"
            THEN UNCHANGED <<ws, wsStale, planFile, renders>>
            ELSE /\ planFile' = IF removed THEN NoPlan ELSE planFile
                 /\ wsStale' = ~removed
                 /\ ws' = renders + 1
                 /\ renders' = renders + 1
         /\ IF o = "ok"
            THEN Continue("plan") /\ UNCHANGED failed
            ELSE Raise("InfraError") /\ Failed("render")
    /\ UNCHANGED <<mode, pure, run, keyStore, serverFp, plans, consumed, config,
                   plan_file, keyvars, cmds, applied, answers>>

\* plan_terraform_deployment: terraform init, plan -out, show.  "not_found":
\* subprocess.run raised FileNotFoundError (no terraform, or no directory to
\* run it in); "<cmd>_fail": that command exited non-zero.
PlanOutcomes == {"not_found", "init_fail", "plan_fail", "show_fail", "ok"}

PlanCmds(o) ==
    CASE o = "not_found" -> <<>>
      [] o = "init_fail" -> <<"init">>
      [] o = "plan_fail" -> <<"init", "plan">>
      [] OTHER           -> <<"init", "plan", "show">>

\* plan_terraform_deployment that does not notice 'terraform plan' failing
AfterPlanUnchecked(o) == IF o \in {"ok", "plan_fail"} THEN "return" ELSE "raise"

\* Whether plan_terraform_deployment returns the plan file's path or raises
AfterPlan(o) == IF o = "ok" THEN "return" ELSE "raise"

PlanTerraformDeployment ==
    /\ pc = "plan"
    /\ Started("plan")
    /\ \E o \in PlanOutcomes :
         /\ ws = 0 => o = "not_found"
         /\ cmds' = cmds \o PlanCmds(o)
         /\ IF o \in {"show_fail", "ok"}
            THEN /\ planFile' = [id |-> plans + 1, ws |-> ws, run |-> run]
                 /\ plans' = plans + 1
            ELSE UNCHANGED <<planFile, plans>>
         /\ IF AfterPlan(o) = "return"
            THEN /\ plan_file' = PlanPath
                 /\ Continue("show")
                 /\ UNCHANGED failed
            ELSE /\ Raise("InfraError")
                 /\ Failed("plan")
                 /\ UNCHANGED plan_file
    /\ UNCHANGED <<mode, pure, run, keyStore, serverFp, ws, wsStale, renders, consumed,
                   config, keyvars, applied, answers>>

\* main() step 4b: terraform show -json and json.loads, outside any
\* function: a failure is an exception main() knows no class for.  It is a
\* failure of the plan step; failed also tells which of the two it was
\* ("show-json": the command exited non-zero, "plan-json": json.loads raised).
ShowOutcomes == {"show_fail", "bad_json", "ok"}
ShowPlanJson ==
    /\ mode = "main" /\ pc = "show"
    /\ cmds' = Append(cmds, "show-json")
    /\ \E o \in ShowOutcomes :
         IF o = "ok" THEN Continue("deploy_q") /\ UNCHANGED failed
         ELSE /\ Raise("Exception")
              /\ failed' = failed \cup {"plan", IF o = "show_fail"
                                                THEN "show-json" ELSE "plan-json"}
    /\ UNCHANGED <<mode, pure, run, world, config, plan_file, keyvars, steps, applied,
                   answers>>

\* main() that goes on to deploy whatever the answer
AfterDeployAnswerIgnored(yes) == "deploy"

\* if q_deploy['deploy'] == False: sys.exit(0)
AfterDeployAnswer(yes) == IF yes = FALSE THEN "exit" ELSE "deploy"

\* main() step 5: "Create VPN?"
ConfirmDeploy ==
    /\ mode = "main" /\ pc = "deploy_q"
    /\ Started("confirm")
    /\ \E o \in PromptOutcomes, yes \in BOOLEAN :
         IF o # "answered" THEN PromptRaise(o) /\ UNCHANGED answers
         ELSE /\ answers' = answers \cup {IF yes THEN "deploy" ELSE "deploy:no"}
              /\ IF AfterDeployAnswer(yes) = "exit"
                 THEN Raise("SystemExit")
                 ELSE Continue("deploy")
    /\ UNCHANGED <<mode, pure, run, world, config, plan_file, keyvars, cmds, applied,
                   failed>>

\* deploy_terraform: terraform apply <plan_file>, unlink the plan file,
\* terraform output -json, json.loads.
DeployOutcomes == {"not_found", "apply_fail", "output_fail", "bad_json", "no_ip",
                   "ok"}

DeployCmds(o) ==
    CASE o = "not_found"  -> <<>>
      [] o = "apply_fail" -> <<"apply">>
      [] OTHER            -> <<"apply", "output">>

\* deploy_terraform that leaves the plan file where it is
UnlinkPlanSkipped(f) == f

\* if plan_file.exists(): plan_file.unlink()
UnlinkPlan(f) == NoPlan

\* deploy_terraform that removes the plan file however apply went
PlanFileAfterDeployAlwaysUnlinked(o, f) == NoPlan

\* The plan file after deploy_terraform: unlinked once apply has succeeded,
\* left alone when apply could not be run or exited non-zero
PlanFileAfterDeploy(o, f) ==
    IF o \in {"not_found", "apply_fail"} THEN f ELSE UnlinkPlan(f)

\* deploy_terraform that lets a failed apply through as CalledProcessError
AfterDeployUncaught(o) ==
    CASE o \in {"not_found", "output_fail"} -> "InfraError"
      [] o \in {"apply_fail", "bad_json"} -> "Exception"
      [] OTHER -> "none"

\* The exception deploy_terraform raises, "none" when it returns the outputs
AfterDeploy(o) ==
    CASE o \in {"not_found", "apply_fail", "output_fail"} -> "InfraError"
      [] o = "bad_json" -> "Exception"
      [] OTHER -> "none"

DeployTerraform ==
    /\ pc = "deploy"
    /\ Started("apply")
    /\ \E o \in DeployOutcomes :
         /\ ws = 0 => o = "not_found"
         /\ planFile = NoPlan => o \in {"not_found", "apply_fail"}
         /\ cmds' = cmds \o DeployCmds(o)
         /\ applied' = IF o = "not_found" THEN applied ELSE Append(applied, planFile)
         /\ planFile' = PlanFileAfterDeploy(o, planFile)
         /\ consumed' = IF o \in {"not_found", "apply_fail"} THEN consumed
                        ELSE consumed \cup {planFile.id}
         /\ CASE AfterDeploy(o) # "none" ->
                   Raise(AfterDeploy(o)) /\ Failed("apply")
              [] AfterDeploy(o) = "none" /\ o = "no_ip" /\ mode = "main" ->
                   Raise("Exception") /\ Failed("outputs")
              [] OTHER ->
                   Continue("poll") /\ UNCHANGED failed
    /\ UNCHANGED <<mode, pure, run, keyStore, serverFp, ws, wsStale, renders, plans,
                   config, plan_file, keyvars, answers>>

\* main() for which an admin UI that is not up in time is a failed deployment
AfterWaitNotReadyFails(ready) == IF ready THEN "none" ELSE "InfraError"

\* What main() raises once wait_for_http has returned: nothing, the result
\* chooses between two messages
AfterWait(ready) == "none"

\* main() step 6: wait_for_http; its result only chooses the message.
WaitForHttp ==
    /\ mode = "main" /\ pc = "poll"
    /\ Started("poll")
    /\ \E ready \in BOOLEAN :
         /\ failed' = IF ready THEN failed ELSE failed \cup {"poll"}
         /\ IF AfterWait(ready) = "none" THEN Continue("cleanup_q")
            ELSE Raise(AfterWait(ready))
    /\ UNCHANGED <<mode, pure, run, world, config, plan_file, keyvars, cmds, applied,
                   answers>>

\* main() whose cleanup lets the rmtree error through
AfterCleanupFailureFatal(removed) == IF removed THEN "SystemExit" ELSE "Exception"

\* How main() leaves the cleanup step once the user has answered: by
\* sys.exit(0), whether or not rmtree raised
AfterCleanup(removed) == "SystemExit"

\* main() step 7: "Clean up terraform files?", shutil.rmtree, sys.exit(0)
Cleanup ==
    /\ mode = "main" /\ pc = "cleanup_q"
    /\ Started("cleanup")
    /\ \E o \in PromptOutcomes, yes \in BOOLEAN, rm \in BOOLEAN :
         CASE o # "answered" ->
                /\ PromptRaise(o)
                /\ UNCHANGED <<ws, wsStale, planFile, answers, failed>>
           [] o = "answered" /\ ~yes ->
                /\ Raise("SystemExit")
                /\ UNCHANGED <<ws, wsStale, planFile, answers, failed>>
           [] o = "answered" /\ yes /\ rm ->
                /\ ws' = 0 /\ wsStale' = FALSE /\ planFile' = NoPlan
                /\ answers' = answers \cup {"cleanup"}
                /\ Raise(AfterCleanup(TRUE))
                /\ UNCHANGED failed
           [] OTHER ->
                /\ answers' = answers \cup {"cleanup"}
                /\ Failed("cleanup")
                /\ Raise(AfterCleanup(FALSE))
                /\ UNCHANGED <<ws, wsStale, planFile>>
    /\ UNCHANGED <<mode, pure, run, keyStore, serverFp, renders, plans, consumed,
                   config, plan_file, keyvars, cmds, applied>>

\* Ctrl+C outside a prompt: KeyboardInterrupt reaches main()'s handler.
Interrupt ==
    /\ mode = "main" /\ pc # "exit"
    /\ Raise("KeyboardInterrupt")
    /\ UNCHANGED <<mode, pure, run, world, config, plan_file, keyvars, logs>>

(***************************************************************************)
(* Runs                                                                    *)
(***************************************************************************)
\* The tool is started again: a new process, the same account and disk.
NewRun ==
    /\ mode = "main" /\ pc = "exit"
    /\ run < MaxRuns
    /\ run' = run + 1
    /\ pc' = "provider"
    /\ config' = NoConfig
    /\ plan_file' = "none"
    /\ steps' = <<>> /\ cmds' = <<>> /\ applied' = <<>>
    /\ answers' = {} /\ failed' = {}
    /\ exc' = "none" /\ exitCode' = {}
    /\ UNCHANGED <<mode, pure, world, keyvars>>

\* A direct call of one operation.
OpsPcs == {"key_read", "render", "plan", "deploy"}
OpsKeyPaths == GoodKeys \cup {"id_short.pub", MissingKeyPath}
OpsCall ==
    /\ mode = "ops" /\ pc = "idle"
    /\ run < MaxCalls
    /\ run' = run + 1
    /\ \E op \in OpsPcs, path \in OpsKeyPaths :
         /\ pc' = op
         /\ op # "key_read" => path = config.ssh_key_path
         /\ config' = [config EXCEPT !.ssh_key_path = path]
    /\ steps' = <<>> /\ cmds' = <<>> /\ applied' = <<>> /\ failed' = {}
    /\ exc' = "none"
    /\ UNCHANGED <<mode, pure, world, plan_file, keyvars, answers, exitCode>>

Providers == {"md5", "other"}

InitWorld ==
    /\ keyStore \in SUBSET GoodKeys
    /\ serverFp \in Providers
    /\ ws = 0 /\ wsStale = FALSE /\ planFile = NoPlan
    /\ renders = 0 /\ plans = 0 /\ consumed = {}

InitPure == rnd = NoRender /\ poll = NoPoll /\ scn = NoScan

InitLocals ==
    /\ config = NoConfig /\ plan_file = "none"
    /\ call = NoCall /\ lastCall = NoCall
    /\ steps = <<>> /\ cmds = <<>> /\ applied = <<>>
    /\ answers = {} /\ failed = {}
    /\ exc = "none" /\ exitCode = {}

Init ==
    /\ mode = "main" /\ pc = "provider" /\ run = 1
    /\ InitWorld /\ InitLocals /\ InitPure

InitOps ==
    /\ mode = "ops" /\ pc = "idle" /\ run = 0 /\ InitWorld
    /\ config = [NoConfig EXCEPT !.ssh_key_path = "id_ed25519.pub"]
    /\ plan_file = PlanPath
    /\ call = NoCall /\ lastCall = NoCall
    /\ steps = <<>> /\ cmds = <<>> /\ applied = <<>>
    /\ answers = {} /\ failed = {}
    /\ exc = "none" /\ exitCode = {}
    /\ InitPure

Operations ==
    \/ SetDoSshKeyRead
    \/ SetDoSshKeyGet
    \/ RaceRegister
    \/ SetDoSshKeyPost
    \/ GenerateTerraformConfig
    \/ PlanTerraformDeployment
    \/ DeployTerraform

Next ==
    \/ SelectCloudProvider
    \/ GetDigitaloceanAuth
    \/ FindExistingVpns
    \/ ConfirmContinue
    \/ SetVpnRegion
    \/ ConfirmDropletSize
    \/ SetVpnName
    \/ SetSshKey
    \/ ConfirmReview
    \/ Operations
    \/ ShowPlanJson
    \/ ConfirmDeploy
    \/ WaitForHttp
    \/ Cleanup
    \/ Interrupt
    \/ NewRun

NextOps == OpsCall \/ Operations

Spec == Init /\ [][Next]_vars
SpecOps == InitOps /\ [][NextOps]_vars

(***************************************************************************)
(* generate_terraform_config on its own: what it writes into main.tf and   *)
(* digitalocean-cloud-init.yaml.  A text is a sequence of atoms; an atom   *)
(* is either a placeholder token "${NAME}" or a stretch of characters      *)
(* holding no token, named after where it comes from.                      *)
(***************************************************************************)
MaxTplLen == 2    \* atoms in a template

\* The keys of the substitutions dict, in the order the loops visit them
Placeholders == <<"REGION", "TIMESTAMP", "CREATED_AT", "DEPLOYMENT_NAME",
                  "SSH_PUBLIC_KEY", "YOUR_IP", "ADMIN_PASSWORD">>

\* f"${{{placeholder}}}"
Token(placeholder) == "${" \o placeholder \o "}"

DeclaredTokens == {Token(Placeholders[i]) : i \in 1..Len(Placeholders)}

\* What a template is made of: its own text, the declared tokens, and a
\* token the substitutions dict has no key for.
TemplateAtoms == DeclaredTokens \cup {"text", "${DO_TOKEN}"}
Templates == UNION {[1..n -> TemplateAtoms] : n \in 0..MaxTplLen}

\* config['vpn_name'] is whatever the user typed, the key file's text ends
\* with a free comment: either can spell a token.
NameTexts == {<<"name">>, <<"name-", "${REGION}">>, <<"${YOUR_IP}">>}
KeyTexts == {<<"key">>, <<"key", "${DEPLOYMENT_NAME}">>}
IpTexts == {<<"ip">>}

\* substitutions that hand the API token to the template as the password
SubstitutionsPasswordIsToken(r, admin_password) ==
    [REGION          |-> r.region,
     TIMESTAMP       |-> <<"timestamp">>,
     CREATED_AT      |-> <<"created_at">>,
     DEPLOYMENT_NAME |-> r.vpn_name,
     SSH_PUBLIC_KEY  |-> r.key_text,
     YOUR_IP         |-> r.user_ip,
     ADMIN_PASSWORD  |-> r.api_key]

\* The substitutions dict
Substitutions(r, admin_password) ==
    [REGION          |-> r.region,
     TIMESTAMP       |-> <<"timestamp">>,
     CREATED_AT      |-> <<"created_at">>,
     DEPLOYMENT_NAME |-> r.vpn_name,
     SSH_PUBLIC_KEY  |-> r.key_text,
     YOUR_IP         |-> r.user_ip,
     ADMIN_PASSWORD  |-> admin_password]

\* str.replace(token, value)
RECURSIVE Replace(_, _, _)
Replace(text, token, value) ==
    IF text = <<>> THEN <<>>
    ELSE (IF Head(text) = token THEN value ELSE <<Head(text)>>)
             \o Replace(Tail(text), token, value)

\* for placeholder, value in substitutions.items(): content = content.replace(...)
RECURSIVE ReplaceFrom(_, _, _)
ReplaceFrom(i, content, substitutions) ==
    IF i > Len(Placeholders) THEN content
    ELSE ReplaceFrom(i + 1,
                     Replace(content, Token(Placeholders[i]),
                             substitutions[Placeholders[i]]),
                     substitutions)

Render(template, substitutions) == ReplaceFrom(1, template, substitutions)

\* Everything but the two variables of the functions taken on their own
mainvars == <<mode, pc, run, world, config, plan_file, keyvars, logs, exc,
              exitCode>>

\* Read a template, substitute, write the file.
WriteFile(file) ==
    /\ \E tpl \in Templates :
         rnd' = [rnd EXCEPT !.file = file, !.tpl = tpl,
                            !.out = Render(tpl, Substitutions(rnd, <<"password">>))]
    /\ UNCHANGED <<mainvars, poll, scn>>

WriteMainTf ==
    /\ mode = "render" /\ rnd.file = "none"
    /\ WriteFile("main.tf")

WriteCloudInit ==
    /\ mode = "render" /\ rnd.file = "main.tf"
    /\ WriteFile("digitalocean-cloud-init.yaml")

\* The rest of the program at rest while one function is looked at
InitIdle ==
    /\ pc = "idle" /\ run = 0
    /\ keyStore = {} /\ serverFp = "md5"
    /\ ws = 0 /\ wsStale = FALSE /\ planFile = NoPlan
    /\ renders = 0 /\ plans = 0 /\ consumed = {}
    /\ InitLocals

InitRender ==
    /\ mode = "render" /\ InitIdle
    /\ \E name \in NameTexts, key \in KeyTexts, ip \in IpTexts :
         rnd = [NoRender EXCEPT !.region = <<"region">>, !.vpn_name = name,
                                !.key_text = key, !.user_ip = ip,
                                !.api_key = <<"api_key">>,
                                !.ssh_key_fingerprint = <<"fingerprint">>]
    /\ poll = NoPoll /\ scn = NoScan

NextRender == WriteMainTf \/ WriteCloudInit

SpecRender == InitRender /\ [][NextRender]_vars

(***************************************************************************)
(* wait_for_http on its own, as main() calls it.  Time is in seconds and   *)
(* starts at 0 when the function is entered.  The target either never      *)
(* answers with a status in 200..399, or does so from the moment poll.at   *)
(* on.                                                                     *)
(***************************************************************************)
TotalTimeout == 180   \* total_timeout
PollInterval == 3     \* interval
UrlTimeout == 5       \* urlopen(url, timeout=5)

\* The moments at which the target can begin to respond
BeginTimes == 0..(TotalTimeout + UrlTimeout + PollInterval)

\* What one urlopen can come to: a response of some status class (urllib
\* raises HTTPError for 4xx/5xx), no connection, no answer in time
PollKinds == {"2xx", "3xx", "1xx", "HTTPError", "URLError", "timeout"}
ReadyKinds == {"2xx", "3xx"}

\* wait_for_http that takes only 2xx for ready
AfterPollOnly2xx(kind) == IF kind = "2xx" THEN "return" ELSE "sleep"

\* wait_for_http that catches connection errors only
AfterPollHttpErrorRaises(kind) ==
    IF kind \in ReadyKinds THEN "return"
    ELSE IF kind = "HTTPError" THEN "raise"
    ELSE "sleep"

\* if 200 <= status < 400: return True; except Exception: pass
AfterPoll(kind) == IF kind \in ReadyKinds THEN "return" ELSE "sleep"

\* while time.time() < deadline
WaitTest ==
    /\ mode = "wait" /\ poll.pc = "test"
    /\ poll' = IF poll.now < poll.deadline
               THEN [poll EXCEPT !.pc = "request"]
               ELSE [poll EXCEPT !.pc = "done", !.result = "False"]
    /\ UNCHANGED <<mainvars, rnd, scn>>

\* One urlopen, taking d seconds.  A target that responds when the request
\* is made answers it; one that begins to while the request is under way
\* may or may not.
WaitRequest ==
    /\ mode = "wait" /\ poll.pc = "request"
    /\ \E d \in 0..UrlTimeout, kind \in PollKinds :
         /\ kind = "timeout" => d = UrlTimeout
         /\ kind \in ReadyKinds => (poll.begins /\ poll.at <= poll.now + d)
         /\ (poll.begins /\ poll.at <= poll.now) => kind \in ReadyKinds
         /\ poll' = CASE AfterPoll(kind) = "return" ->
                           [poll EXCEPT !.now = poll.now + d, !.pc = "done",
                                        !.result = "True"]
                      [] AfterPoll(kind) = "raise" ->
                           [poll EXCEPT !.now = poll.now + d, !.pc = "done",
                                        !.raised = kind]
                      [] OTHER ->
                           [poll EXCEPT !.now = poll.now + d, !.pc = "sleep"]
    /\ UNCHANGED <<mainvars, rnd, scn>>

\* time.sleep(interval)
WaitSleep ==
    /\ mode = "wait" /\ poll.pc = "sleep"
    /\ poll' = [poll EXCEPT !.now = poll.now + PollInterval, !.pc = "test"]
    /\ UNCHANGED <<mainvars, rnd, scn>>

InitWait ==
    /\ mode = "wait" /\ InitIdle
    /\ rnd = NoRender /\ scn = NoScan
    /\ \E begins \in BOOLEAN, at \in BeginTimes :
         /\ ~begins => at = 0
         /\ poll = [NoPoll EXCEPT !.pc = "test", !.deadline = TotalTimeout,
                                  !.begins = begins, !.at = at]

NextWait == WaitTest \/ WaitRequest \/ WaitSleep

\* The function runs on: the interpreter takes the next step, and urlopen
\* and sleep come back.
SpecWait == InitWait /\ [][NextWait]_vars /\ WF_vars(NextWait)

(***************************************************************************)
(* find_existing_vpns on its own: the filter over the droplets of a        *)
(* response.  A name or a tag is a sequence of atoms, each a word or a     *)
(* separator; a marker is contained in it where its atoms stand in a row.  *)
(***************************************************************************)
MaxDroplets == 2   \* droplets in a response
MaxNameLen == 2    \* atoms in a droplet name

NameAtoms == {"Wardrobe", "VPN", "web"}
DropletNames == UNION {[1..n -> NameAtoms] : n \in 0..MaxNameLen}
TagTexts == {<<"wardrobe">>, <<"wardrobe", "-", "vpn">>, <<"Wardrobe", "-", "vpn">>}
Droplets == [name : DropletNames, tags : SUBSET TagTexts]

\* str.lower()
Lower(atom) ==
    CASE atom = "Wardrobe" -> "wardrobe"
      [] atom = "VPN"      -> "vpn"
      [] OTHER             -> atom
LowerText(text) == [i \in 1..Len(text) |-> Lower(text[i])]

\* marker in text
Contains(marker, text) ==
    \E i \in 1..Len(text) :
        /\ i + Len(marker) - 1 <= Len(text)
        /\ SubSeq(text, i, i + Len(marker) - 1) = marker

\* The test with the name conditions grouped first: ("wardrobe" in name or
\* "vpn" in name) and any(...) or any(...)
LooksLikeWardrobeVpnGrouped(name, tags) ==
    \/ /\ (Contains(<<"wardrobe">>, name) \/ Contains(<<"vpn">>, name))
       /\ \E tag \in tags : Contains(<<"wardrobe">>, tag)
    \/ \E tag \in tags : Contains(<<"wardrobe", "-", "vpn">>, tag)

\* "wardrobe" in name or "vpn" in name and any("wardrobe" in tag ...) or
\* any("wardrobe-vpn" in tag ...), as Python groups it
LooksLikeWardrobeVpn(name, tags) ==
    \/ Contains(<<"wardrobe">>, name)
    \/ (Contains(<<"vpn">>, name) /\ \E tag \in tags : Contains(<<"wardrobe">>, tag))
    \/ \E tag \in tags : Contains(<<"wardrobe", "-", "vpn">>, tag)

\* One round of "for droplet in droplets": the name lower-cased, the tags
\* as they are.
ScanDroplet ==
    /\ mode = "scan" /\ scn.pc = "loop"
    /\ scn.seen < MaxDroplets
    /\ \E droplet \in Droplets :
         LET listed == LooksLikeWardrobeVpn(LowerText(droplet.name), droplet.tags)
         IN scn' = [scn EXCEPT !.seen = scn.seen + 1, !.droplet = droplet,
                               !.listed = listed,
                               !.found = IF listed THEN scn.found + 1 ELSE scn.found]
    /\ UNCHANGED <<mainvars, rnd, poll>>

\* return wardrobe_vpns
ScanReturn ==
    /\ mode = "scan" /\ scn.pc = "loop"
    /\ scn' = [scn EXCEPT !.pc = "done"]
    /\ UNCHANGED <<mainvars, rnd, poll>>

InitScan ==
    /\ mode = "scan" /\ InitIdle
    /\ rnd = NoRender /\ poll = NoPoll
    /\ scn = [NoScan EXCEPT !.pc = "loop"]

NextScan == ScanDroplet \/ ScanReturn

SpecScan == InitScan /\ [][NextScan]_vars

(***************************************************************************)
(* Properties                                                              *)
(***************************************************************************)
InSeq(x, s) == \E i \in 1..Len(s) : s[i] = x
Count(x, s) == Cardinality({i \in 1..Len(s) : s[i] = x})
Last(s) == s[Len(s)]

IsTerraformStep(s) == s \in {"render", "plan", "apply"}

\* C1: every 'terraform apply' of a run is given the path the plan step of
\* that run returned, and the artifact at that path is the one that plan
\* step wrote in this run, from the workspace as last rendered (no render and
\* no plan since), after exactly one render and one plan, in that order; it
\* is never an artifact of an earlier run.
C1_ApplyUsesThisRunsPlan ==
    \A i \in 1..Len(applied) :
        /\ plan_file = PlanPath
        /\ applied[i] # NoPlan
        /\ applied[i].run = run
        /\ applied[i].id = plans
        /\ applied[i].ws = renders
        /\ SelectSeq(steps, IsTerraformStep) = <<"render", "plan", "apply">>

\* In a second run whose render could not remove the old workspace, with an
\* earlier plan on record, apply has been invoked.
C1_Witness ==
    /\ run = 2 /\ wsStale /\ plans >= 2
    /\ Len(applied) = 1

\* C2 (as claimed): deploy_terraform called with a plan file that does not
\* exist fails with InputError, exit code 2.
C2_ApplyWithoutPlanIsInputError ==
    (mode = "ops" /\ pc = "idle" /\ steps = <<"apply">> /\ applied = <<NoPlan>>)
        => (exc = "InputError" /\ ExitCodeOf(exc) = ExitInput)

C4_AnyDeployFailureKeepsPlan ==
    "apply" \in failed =>
        /\ planFile # NoPlan
        /\ exitCode = {ExitInfra}
        /\ ~InSeq("destroy", cmds)

\* C4 (amended): whenever deploy_terraform has raised because 'terraform
\* apply' could not be started or exited non-zero, the plan file it was given
\* still exists, the exit code is 3 and no destroy command was issued.
C4_ApplyFailureKeepsPlan ==
    ("apply" \in failed /\ ~InSeq("output", cmds)) =>
        /\ planFile # NoPlan
        /\ \A i \in 1..Len(applied) : applied[i] = planFile
        /\ exc = "InfraError"
        /\ exitCode = {ExitInfra}
        /\ ~InSeq("destroy", cmds)

\* 'terraform apply' exited non-zero and the run has ended.
C4_Witness ==
    /\ "apply" \in failed /\ Last(cmds) = "apply"
    /\ planFile # NoPlan /\ pc = "exit"

\* C5: 'terraform apply' is invoked (and the apply step started) only in a
\* run where the user answered yes to "Create VPN?"; a run where the user
\* answered no has ended with exit code 0 without apply.
C5_DeployOnlyAfterConfirmation ==
    /\ (InSeq("apply", cmds) \/ InSeq("apply", steps)) => "deploy" \in answers
    /\ "deploy:no" \in answers =>
          /\ pc = "exit" /\ exitCode = {ExitOk}
          /\ ~InSeq("apply", cmds) /\ ~InSeq("apply", steps)

\* The user answered no to "Create VPN?" with a plan on disk.
C5_Witness ==
    "deploy:no" \in answers /\ planFile # NoPlan /\ planFile.run = run

StepOrder == <<"scan", "key", "render", "plan", "confirm", "apply", "poll",
               "cleanup">>
StepIndex(s) == CHOOSE i \in 1..Len(StepOrder) : StepOrder[i] = s
NonAdvisory == {"key", "render", "plan", "confirm", "apply"}

\* C6: the steps of a run start in the fixed order, each at most once, and
\* once a step other than scan, poll and cleanup has failed no later step
\* has started.
C6_StepsInOrder ==
    /\ \A i \in 1..Len(steps) : InSeq(steps[i], StepOrder)
    /\ \A i, j \in 1..Len(steps) :
          i < j => StepIndex(steps[i]) < StepIndex(steps[j])
    /\ \A s \in failed \cap NonAdvisory : Last(steps) = s /\ pc = "exit"

\* The scan failed, the run went on, and the plan step failed.
C6_Witness ==
    /\ "scan" \in failed /\ "plan" \in failed
    /\ steps = <<"scan", "key", "render", "plan">>

\* Two calls of set_do_ssh_key in sequence, for the same key file
SameKeyTwice == lastCall.done /\ call.done /\ lastCall.key = call.key
BothReturned == lastCall.raised = "none" /\ call.raised = "none"

\* C7 (as claimed): two calls in sequence for the same key return the same
\* fingerprint, and at most one of them creates the key.
C7_SameFingerprintTwice ==
    SameKeyTwice =>
        /\ BothReturned => lastCall.result = call.result
        /\ ~(lastCall.created /\ call.created)

\* C7 (amended): at most one of the two calls creates the key, and both
\* return the same fingerprint unless the first created the key and was
\* given a fingerprint other than the local one for it.
C7_SameFingerprintUnlessReassigned ==
    SameKeyTwice =>
        /\ (BothReturned /\ ~(lastCall.created /\ lastCall.result # lastCall.local))
              => lastCall.result = call.result
        /\ ~(lastCall.created /\ call.created)

\* The first call created the key, the second found it and returned the
\* same fingerprint.
C7_Witness ==
    /\ SameKeyTwice /\ BothReturned
    /\ lastCall.created /\ call.lookup = "200"
    /\ lastCall.result = call.result

\* C8: a call sends at most one create request, only after a lookup that
\* returned 404; a lookup that returned 200 ends the call with the local
\* fingerprint and no create request.
C8_AtMostOneCreateRequest ==
    /\ call.posts <= 1
    /\ call.posts = 1 => call.lookup = "404"
    /\ call.lookup = "200" =>
          /\ call.posts = 0 /\ call.done
          /\ call.raised = "none" /\ call.result = call.local
          /\ InSeq("key", steps) => config.ssh_key_fingerprint = call.local

\* The lookup found the key.
C8_Witness ==
    call.lookup = "200" /\ call.result = LocalFp(call.key) /\ call.posts = 0

\* C9: after a 404 lookup, a created response with a fingerprint in it makes
\* the call return that fingerprint, the provider's.
C9_ReturnsServerFingerprint ==
    (call.lookup = "404" /\ call.create = "201" /\ call.body = "fingerprint") =>
        /\ call.raised = "none"
        /\ call.result = ServerFpOf(call.key)
        /\ InSeq("key", steps) => config.ssh_key_fingerprint = ServerFpOf(call.key)

\* The key was created and the provider's fingerprint is not the local one.
C9_Witness ==
    /\ call.create = "201" /\ call.body = "fingerprint"
    /\ call.result # call.local /\ call.result = ServerFpOf(call.key)

\* C10: when the key is registered by someone else between the 404 lookup
\* and the create request, which then returns 422, the call returns the
\* local fingerprint and raises nothing; the run goes on to render.
C10_ConflictIsSuccess ==
    (call.lookup = "404" /\ call.create = "422") =>
        /\ call.raised = "none" /\ call.result = call.local
        /\ ~call.created
        /\ InSeq("key", steps) =>
              /\ "key" \notin failed
              /\ config.ssh_key_fingerprint = call.local

\* The race happened and the run has gone on to the render step.
C10_Witness ==
    /\ call.raced /\ call.create = "422" /\ call.result = call.local
    /\ steps = <<"scan", "key", "render">>


(***************************************************************************)
(* C11: a lookup status other than 200/404, a create status other than     *)
(* 200/201/202/422, a request that raised or a created-response without a  *)
(* readable fingerprint makes the key reconciliation of the run fail with  *)
(* a fatal (infrastructure) error, and a run whose reconciliation returned *)
(* no fingerprint starts neither render, plan nor apply.                   *)
(***************************************************************************)
ReconcileBroke ==
    \/ call.lookup \notin {"none", "200", "404"}
    \/ call.create \notin {"none", "200", "201", "202", "422"}
    \/ (call.created /\ call.body # "fingerprint")

C11_ReconcileFailureIsFatal ==
    /\ (InSeq("key", steps) /\ call.done /\ ReconcileBroke)
         => /\ call.raised = "InfraError" /\ call.result = NoFp
            /\ "key" \in failed
            /\ pc = "exit" /\ exc = "InfraError" /\ exitCode = {ExitInfra}
    /\ (InSeq("key", steps) /\ config.ssh_key_fingerprint = NoFp)
         => /\ \A s \in {"render", "plan", "apply"} : ~InSeq(s, steps)
            /\ cmds = <<>>

C11_Witness ==
    /\ InSeq("key", steps) /\ call.done
    /\ call.lookup = "404" /\ call.create = "500"
    /\ steps = <<"scan", "key">>
    /\ exitCode = {ExitInfra}

C11_WitnessParse ==
    /\ InSeq("key", steps) /\ call.created /\ call.body = "malformed"
    /\ pc = "exit" /\ cmds = <<>>


(***************************************************************************)
(* C12: no outcome of the scan aborts the run: the step in which           *)
(* find_existing_vpns fails leaves the run alive and at region selection.  *)
(***************************************************************************)
C12_ScanFailureGoesOn ==
    [][("scan" \notin failed /\ "scan" \in failed')
          => (pc' = "region" /\ exitCode' = {})]_vars

(***************************************************************************)
(* C13: when generate_terraform_config has returned for a second request,  *)
(* tf_output holds nothing older than that render: no stale file, no plan  *)
(* file of an earlier plan.                                                *)
(***************************************************************************)
C13_RenderDiscardsWorkspace ==
    (mode = "main" /\ pc = "plan" /\ renders >= 2)
        => (~wsStale /\ planFile = NoPlan)


(***************************************************************************)
(* C14: a file rendered with the complete substitutions dict holds no      *)
(* declared placeholder token, whatever the substitution values are.       *)
(* (That two renders of one template with one dict agree is how Render is  *)
(* defined here and is not a statement the model can fail.)                *)
(***************************************************************************)
Atoms(text) == {text[i] : i \in 1..Len(text)}

C14_NoDeclaredTokenLeft ==
    rnd.file # "none" => Atoms(rnd.out) \cap DeclaredTokens = {}

(***************************************************************************)
(* C15: neither the API token nor the key fingerprint is in a rendered     *)
(* file.                                                                   *)
(***************************************************************************)
C15_SecretsNotRendered ==
    rnd.file # "none"
        => /\ Atoms(rnd.out) \cap Atoms(rnd.api_key) = {}
           /\ Atoms(rnd.out) \cap Atoms(rnd.ssh_key_fingerprint) = {}

C15_Witness ==
    /\ rnd.file = "digitalocean-cloud-init.yaml"
    /\ rnd.tpl = <<"${ADMIN_PASSWORD}", "${SSH_PUBLIC_KEY}">>
    /\ rnd.out = <<"password">> \o rnd.key_text


(***************************************************************************)
(* C16: whenever the target begins to respond during the call,             *)
(* wait_for_http returns true, at most total_timeout + interval later.     *)
(***************************************************************************)
C16_TrueWheneverTargetBegins ==
    (poll.pc = "done" /\ poll.begins /\ poll.at <= poll.now)
        => /\ poll.result = "True"
           /\ poll.now <= poll.at + TotalTimeout + PollInterval

\* C16 amended: ... when the target begins to respond early enough for one
\* more poll to start before the deadline (a poll under way and the sleep
\* after it fit in between); a target that begins later can be missed.
C16_TrueWhenTargetBeginsInTime ==
    /\ (poll.pc = "done" /\ poll.begins
          /\ poll.at + UrlTimeout + PollInterval < poll.deadline)
         => /\ poll.result = "True"
            /\ poll.now <= poll.at + TotalTimeout + PollInterval
    /\ (poll.pc = "done" /\ poll.result = "True")
         => (poll.begins /\ poll.at <= poll.now)

C16_Witness ==
    /\ poll.pc = "done" /\ poll.result = "True"
    /\ poll.at = 100 /\ poll.now > poll.at + UrlTimeout

(***************************************************************************)
(* C17: wait_for_http terminates; when no poll was answered with a status  *)
(* in 200..399 it returns false, soon after the deadline, and raises       *)
(* nothing; a poll that fails leads to the sleep and the next test.        *)
(***************************************************************************)
C17_TerminatesWithFalse ==
    /\ <>(poll.pc = "done")
    /\ []((poll.pc = "done" /\ ~poll.begins)
            => /\ poll.result = "False" /\ poll.raised = "none"
               /\ poll.now < poll.deadline + UrlTimeout + PollInterval)
    /\ [](poll.raised = "none")
    /\ [][(poll.pc = "request" /\ poll'.pc # "done") => poll'.pc = "sleep"]_vars

C17_Witness ==
    /\ poll.pc = "done" /\ ~poll.begins /\ poll.result = "False"
    /\ poll.now > poll.deadline


(***************************************************************************)
(* C18: a run that has ended has exactly one exit code, and it is the one  *)
(* of the way it ended: 0 completed, cancelled or interrupted; 2 an        *)
(* InputError; 3 an InfraError; 1 a WardrobeError or any other exception.  *)
(* A run that has not ended has none.                                      *)
(***************************************************************************)
C18_OneExitCodePerEnding ==
    IF pc # "exit" THEN mode = "main" => exitCode = {}
    ELSE /\ Cardinality(exitCode) = 1
         /\ exc \in {"SystemExit", "KeyboardInterrupt", "UserCancelled",
                     "InputError", "InfraError", "WardrobeError", "Exception"}
         /\ exc \in {"SystemExit", "KeyboardInterrupt", "UserCancelled"}
              => exitCode = {0}
         /\ exc = "InputError" => exitCode = {2}
         /\ exc = "InfraError" => exitCode = {3}
         /\ exc \in {"WardrobeError", "Exception"} => exitCode = {1}

\* The user left the name empty: the run ended with 2.
C18_Witness ==
    /\ pc = "exit" /\ exc = "InputError" /\ exitCode = {2}
    /\ steps = <<"scan">>

(***************************************************************************)
(* C19: when an engine command run before the deploy confirmation (init,   *)
(* plan, show, show -json) exits non-zero, the run ends as InfraError with *)
(* exit code 3 and has invoked no apply.                                   *)
(***************************************************************************)
EngineFailedBeforeConfirm ==
    /\ "plan" \in failed
    /\ cmds # <<>>
    /\ "plan-json" \notin failed

C19_EngineFailureIsInfraError ==
    EngineFailedBeforeConfirm
        => /\ pc = "exit" /\ exc = "InfraError" /\ exitCode = {3}
           /\ ~InSeq("apply", cmds)

(***************************************************************************)
(* C20: a key file that set_do_ssh_key or get_md5_fingerprint cannot read  *)
(* or parse during key reconciliation ends the run as InputError with exit *)
(* code 2.                                                                 *)
(***************************************************************************)
C20_KeyInputErrorKeepsClass ==
    (InSeq("key", steps) /\ call.done /\ call.raised = "InputError")
        => (pc = "exit" /\ exc = "InputError" /\ exitCode = {2})


(***************************************************************************)
(* C21: when the render step of a run has failed, the run has sent no      *)
(* mutating request to the provider (no create request, no key registered  *)
(* by it) and has run no engine command.                                   *)
(***************************************************************************)
C21_RenderFailureTouchedNothing ==
    (mode = "main" /\ "render" \in failed)
        => /\ call.posts = 0 /\ ~call.created
           /\ cmds = <<>>


(***************************************************************************)
(* C22: the key text a create request carries is the text of the key file, *)
(* character for character, whitespace and line ends around it included.   *)
(***************************************************************************)
C22_KeyTextSentVerbatim ==
    call.posts > 0 => call.sent = KeyText(call.key)


(***************************************************************************)
(* C23: a droplet is listed exactly when its name (case ignored) contains  *)
(* 'wardrobe', or some tag contains 'wardrobe-vpn', or its name (case      *)
(* ignored) contains 'vpn' and some tag contains 'wardrobe'.               *)
(***************************************************************************)
NameHas(word) == \E i \in 1..Len(scn.droplet.name) : Lower(scn.droplet.name[i]) = word
SomeTagHas(marker) == \E tag \in scn.droplet.tags : Contains(marker, tag)

C23_WitnessNotListed ==
    /\ scn.seen > 0 /\ ~scn.listed
    /\ NameHas("vpn") /\ ~SomeTagHas(<<"wardrobe">>)
    /\ scn.droplet.tags # {}


(***************************************************************************)
(* C24: the readiness poll is advisory.  The step that follows it is the   *)
(* cleanup step whether wait_for_http returned true or false (only Ctrl+C  *)
(* ends the run there), and a run that got as far as the poll ends with    *)
(* the exit code of what ended it afterwards, the same for both results.   *)
(***************************************************************************)
C24_PollIsAdvisory ==
    /\ [][(pc = "poll" /\ pc' # "poll")
            => \/ (pc' = "cleanup_q" /\ exitCode' = {})
               \/ (pc' = "exit" /\ exc' = "KeyboardInterrupt")]_vars
    /\ []((InSeq("poll", steps) /\ pc = "exit")
            => /\ "apply" \notin failed /\ "outputs" \notin failed
               /\ exitCode = IF exc = "WardrobeError" THEN {1} ELSE {0})

\* The poll timed out, the cleanup step ran, the run ended with 0.
C24_Witness ==
    /\ "poll" \in failed
    /\ InSeq("cleanup", steps)
    /\ pc = "exit" /\ exitCode = {0}

(***************************************************************************)
(* C25: a cleanup that fails to remove the workspace is not fatal: the     *)
(* directory stays and the run ends with exit code 0.  The removal is      *)
(* attempted only after a successful apply and only when the user chose    *)
(* it.                                                                     *)
(***************************************************************************)
C25_CleanupFailureNotFatal ==
    /\ "cleanup" \in failed
         => /\ pc = "exit" /\ exitCode = {0}
            /\ ws # 0
    /\ (InSeq("cleanup", steps) /\ pc = "exit" /\ "cleanup" \notin answers)
         => /\ ws # 0 /\ "cleanup" \notin failed
    /\ (mode = "main" /\ "cleanup" \in answers)
         => /\ "deploy" \in answers
            /\ InSeq("apply", cmds) /\ InSeq("output", cmds)
            /\ "apply" \notin failed /\ "outputs" \notin failed

C25_Witness ==
    /\ "cleanup" \in failed /\ "cleanup" \in answers
    /\ ws # 0 /\ exitCode = {0}


(***************************************************************************)
(* C26: every step that talks to the provider or runs the engine (scan,    *)
(* key, render, plan, apply) is started with a token of the format         *)
(* dop_v1_ + 64 of [a-f0-9], and key, render, plan and apply with a        *)
(* non-empty name; a typed token or name that fails its check ends the run *)
(* as InputError (exit code 2) before any of these steps.                  *)
(***************************************************************************)
C26_TokenAndNameChecked ==
    /\ (mode = "main" /\ steps # <<>>)
         => /\ config.api_key.prefix = "dop_v1_"
            /\ config.api_key.len = 64
            /\ config.api_key.hex /\ ~config.api_key.padded
    /\ (mode = "main" /\ \E s \in {"key", "render", "plan", "apply"} : InSeq(s, steps))
         => config.vpn_name \notin {"", "none"}
    /\ "token" \in failed
         => /\ pc = "exit" /\ exc = "InputError" /\ exitCode = {2}
            /\ steps = <<>>
    /\ "name" \in failed
         => /\ pc = "exit" /\ exc = "InputError" /\ exitCode = {2}
            /\ \A s \in {"key", "render", "plan", "apply"} : ~InSeq(s, steps)

\* Apply has been invoked, with a checked token and a name.
C26_Witness ==
    /\ InSeq("apply", cmds)
    /\ config.api_key.len = 64 /\ config.vpn_name = "wardrobe-vpn-lon1"

\* A token one character short ended the run.
C26_WitnessRejected ==
    /\ "token" \in failed /\ exitCode = {2} /\ steps = <<>>


(***************************************************************************)
(* C27: a run sends a create request (POST /account/keys) only after the   *)
(* user has answered yes at the review step: the key step is never         *)
(* started without that answer, a create request is sent only within the   *)
(* key step, and the account's keys change at no other point of a run.     *)
(***************************************************************************)
C27_KeyOnlyAfterReview ==
    /\ []((mode = "main" /\ InSeq("key", steps)) => "review" \in answers)
    /\ []((mode = "main" /\ pc \in {"key_read", "key_get", "key_post"})
            => "review" \in answers)
    /\ [][(mode = "main" /\ call'.posts > call.posts)
            => (pc = "key_post" /\ "review" \in answers /\ InSeq("key", steps))]_vars
    /\ [][(mode = "main" /\ keyStore' # keyStore) => pc = "key_post"]_vars

\* The key was created on the account in this run, after the yes.
C27_Witness ==
    /\ mode = "main" /\ InSeq("key", steps)
    /\ call.created /\ call.posts = 1
    /\ "review" \in answers


(***************************************************************************)
(* C28: a run that ends because the user declined the deployment, or       *)
(* because render, plan or apply failed, removes nothing it created on its *)
(* way out: the account keeps its keys, the rendered workspace and the     *)
(* plan file stay as they are.  (A plan file is gone only where apply      *)
(* itself had succeeded with it before the step failed.)                   *)
(***************************************************************************)
C28_ExitRemovesNothing ==
    /\ [][(mode = "main" /\ pc' = "exit"
             /\ pc \in {"render", "plan", "show", "deploy_q", "deploy"})
            => /\ keyStore \subseteq keyStore'
               /\ pc # "render" => (ws' = ws /\ ws' # 0 /\ wsStale' = wsStale)
               /\ pc \in {"show", "deploy_q"} => planFile' = planFile
               /\ pc = "plan" => (planFile # NoPlan => planFile' # NoPlan)
               /\ (pc = "deploy" /\ ~InSeq("output", cmds'))
                    => planFile' = planFile]_vars
    /\ []((mode = "main" /\ pc = "exit" /\ "deploy:no" \in answers)
            => /\ ws = renders /\ ws # 0
               /\ planFile # NoPlan /\ planFile.run = run /\ planFile.ws = ws
               /\ call.created => call.key \in keyStore)

\* The user declined; the key this run registered, its workspace and its
\* plan file are all there.
C28_Witness ==
    /\ mode = "main" /\ pc = "exit" /\ "deploy:no" \in answers
    /\ call.created /\ call.key \in keyStore
    /\ ws # 0 /\ planFile.run = run

\* Apply exited non-zero; the plan file is still there.
C28_WitnessApplyFailed ==
    /\ mode = "main" /\ pc = "exit" /\ "apply" \in failed
    /\ Last(cmds) = "apply"
    /\ planFile # NoPlan /\ planFile.run = run

====
